---- MODULE Spec2Model ----
(***************************************************************************)
(* kuota-calc: resource arithmetic, pod aggregation, the per-kind rollout  *)
(* calculators and the command's document loop.                            *)
(*                                                                         *)
(* Quantities are integers in the quantity's minor unit (MilliValue).      *)
(* A Go pointer or optional field is a sequence: <<>> is nil, <<v>> is a   *)
(* pointer to v.  A float64 multiplier is an exact rational [num, den]:    *)
(* the conversion to int64 is modelled, the rounding error of float64 is   *)
(* not.                                                                    *)
(***************************************************************************)
EXTENDS Integers, Sequences, FiniteSets, TLC

VARIABLES
    obj,          \* the decoded workload object handed to a calculator (in
                  \* the loop: the document; in the arithmetic: the call)
    ret,          \* what the calculator returned for obj
    cpc,          \* position of the calculator invocation: "call" | "done"
    maxRollouts,  \* opts.maxRollouts (--max-rollouts)
    consumed,     \* documents yamlReader.Read() has returned so far
    summary,      \* run's summary []*calc.ResourceUsage
    pc,           \* position of run: "loop" | "printed" | "failed" | "readFailed"
    printed       \* the totals printSummary wrote (<<>> before printing)

vars == <<obj, ret, cpc, maxRollouts, consumed, summary, pc, printed>>

----------------------------------------------------------------------------
(* Bounds of the model *)

MaxContainers == 2
MaxInitContainers == 1
ReplicasBound == 3
MaxDocs == 3
MaxRolloutFlag == 3
LiteralBound == 2

(* Program constants *)
MaxInt32 == 2147483647
MinInt32 == -2147483647 - 1

----------------------------------------------------------------------------
(* Resources and its arithmetic (calc.go) *)

Fields == {"CPUMin", "CPUMax", "MemoryMin", "MemoryMax"}

ZeroResources == [CPUMin |-> 0, CPUMax |-> 0, MemoryMin |-> 0, MemoryMax |-> 0]

\* int64(x) of a float64 x = n/d, d > 0: truncation toward zero
Int64OfFloat(n, d) == IF n >= 0 THEN n \div d ELSE -((-n) \div d)

Float64(n) == [num |-> n, den |-> 1]

Add(r, y) ==
    [CPUMin |-> r.CPUMin + y.CPUMin, CPUMax |-> r.CPUMax + y.CPUMax,
     MemoryMin |-> r.MemoryMin + y.MemoryMin, MemoryMax |-> r.MemoryMax + y.MemoryMax]

MulMutantValue(r, y) ==
    [CPUMin |-> 1000 * Int64OfFloat((r.CPUMin \div 1000) * y.num, y.den),
     CPUMax |-> 1000 * Int64OfFloat((r.CPUMax \div 1000) * y.num, y.den),
     MemoryMin |-> 1000 * Int64OfFloat((r.MemoryMin \div 1000) * y.num, y.den),
     MemoryMax |-> 1000 * Int64OfFloat((r.MemoryMax \div 1000) * y.num, y.den)]

Mul(r, y) ==
    [CPUMin |-> Int64OfFloat(r.CPUMin * y.num, y.den),
     CPUMax |-> Int64OfFloat(r.CPUMax * y.num, y.den),
     MemoryMin |-> Int64OfFloat(r.MemoryMin * y.num, y.den),
     MemoryMax |-> Int64OfFloat(r.MemoryMax * y.num, y.den)]

MulInt32(r, y) == Mul(r, Float64(y))

----------------------------------------------------------------------------
(* Pod templates *)

\* ResourceList.Cpu() / .Memory(): the declared quantity, or zero when absent
Cpu(list) == IF "cpu" \in DOMAIN list THEN list["cpu"] ELSE 0

Memory(list) == IF "memory" \in DOMAIN list THEN list["memory"] ELSE 0

NoList == [x \in {} |-> 0]

\* the containers the inputs are drawn from: requests and limits, each a
\* partial map over {"cpu", "memory"}
Undeclared == [Requests |-> NoList, Limits |-> NoList]

\* partly declared: a cpu request and a memory limit only
Small == [Requests |-> ("cpu" :> 100), Limits |-> ("memory" :> 3)]

Main == [Requests |-> ("cpu" :> 250) @@ ("memory" :> 2),
         Limits |-> ("cpu" :> 1000) @@ ("memory" :> 4)]

Big == [Requests |-> ("cpu" :> 1000) @@ ("memory" :> 3),
        Limits |-> ("cpu" :> 2000) @@ ("memory" :> 5)]

ContainerValues == {Undeclared, Small, Main, Big}

SeqsUpTo(S, n) == UNION {[1..k -> S] : k \in 0..n}

PodSpecs ==
    [Containers : SeqsUpTo(ContainerValues, MaxContainers),
     InitContainers : SeqsUpTo(ContainerValues, MaxInitContainers)]

RECURSIVE SumContainers(_)
SumContainers(cs) ==
    IF cs = <<>> THEN ZeroResources
    ELSE LET container == Head(cs)
             rest == SumContainers(Tail(cs))
         IN [CPUMin |-> rest.CPUMin + Cpu(container.Requests),
             CPUMax |-> rest.CPUMax + Cpu(container.Limits),
             MemoryMin |-> rest.MemoryMin + Memory(container.Requests),
             MemoryMax |-> rest.MemoryMax + Memory(container.Limits)]

maxQuantityMutant(q1, q2) == q1 + q2

maxQuantity(q1, q2) == IF q1 > q2 THEN q1 ELSE q2

calcPodResources(podSpec) ==
    LET c == SumContainers(podSpec.Containers)
        i == SumContainers(podSpec.InitContainers)
    IN [Containers |-> c,
        InitContainers |-> i,
        MaxResources |->
            [CPUMin |-> maxQuantity(c.CPUMin, i.CPUMin),
             CPUMax |-> maxQuantity(c.CPUMax, i.CPUMax),
             MemoryMin |-> maxQuantity(c.MemoryMin, i.MemoryMin),
             MemoryMax |-> maxQuantity(c.MemoryMax, i.MemoryMax)]]

\* the pod total the Deployment, DeploymentConfig and Pod calculators use:
\* containers and init containers are added into the same four quantities
podResources(podSpec) ==
    Add(SumContainers(podSpec.Containers), SumContainers(podSpec.InitContainers))

----------------------------------------------------------------------------
(* intstr.IntOrString and its scaling, as the calculators call it.  A      *)
(* string value is its sequence of characters.                             *)

FromInt32(n) == [Type |-> "Int", IntVal |-> n, StrVal |-> <<>>]

FromString(s) == [Type |-> "String", IntVal |-> 0, StrVal |-> s]

Pct25 == <<"2", "5", "%">>

Pct50 == <<"5", "0", "%">>

Pct100 == <<"1", "0", "0", "%">>

NoPct == <<"5">>

\* 300000000000%: three thousand million pods for each replica
PctHuge == <<"3", "0", "0", "0", "0", "0", "0", "0", "0", "0", "0", "0", "%">>

Digits == {"0", "1", "2", "3", "4", "5", "6", "7", "8", "9"}

DigitVal(c) ==
    CASE c = "0" -> 0 [] c = "1" -> 1 [] c = "2" -> 2 [] c = "3" -> 3
      [] c = "4" -> 4 [] c = "5" -> 5 [] c = "6" -> 6 [] c = "7" -> 7
      [] c = "8" -> 8 [] c = "9" -> 9

(* Go's int is 64 bits wide and a scaled percentage can leave the 32-bit  *)
(* range, so an int is kept as two limbs: hi * Limb + lo, 0 <= lo < Limb. *)
Limb == 256 * 256

Wide(hi, lo) == [hi |-> hi + (lo \div Limb), lo |-> lo % Limb]

WideOf(n) == Wide(0, n)

WideNeg(w) == Wide(-w.hi, -w.lo)

WideSub(a, b) == Wide(a.hi - b.hi, a.lo - b.lo)

\* w * k for a small k
WideMul(w, k) == Wide(w.hi * k, w.lo * k)

\* math.Floor and math.Ceil of w / d for a small d > 0
Floor(w, d) == Wide(w.hi \div d, ((w.hi % d) * Limb + w.lo) \div d)

Ceil(w, d) == WideNeg(Floor(WideNeg(w), d))

\* math.MinInt32 <= w <= math.MaxInt32
InInt32(w) == w.hi >= MinInt32 \div Limb /\ w.hi <= MaxInt32 \div Limb

\* int32(w) for a w within the 32-bit range
Int32Of(w) == w.hi * Limb + w.lo

RECURSIVE DecimalValue(_)
DecimalValue(s) ==
    IF s = <<>> THEN WideOf(0)
    ELSE LET front == DecimalValue(SubSeq(s, 1, Len(s) - 1))
         IN Wide(10 * front.hi, 10 * front.lo + DigitVal(s[Len(s)]))

\* strconv.Atoi on an unsigned decimal string
Atoi(s) ==
    IF s # <<>> /\ \A k \in 1..Len(s) : s[k] \in Digits
    THEN [err |-> FALSE, value |-> DecimalValue(s)]
    ELSE [err |-> TRUE, value |-> WideOf(0)]

getIntOrPercentValueSafely(v) ==
    IF v.Type = "Int" THEN [err |-> FALSE, value |-> WideOf(v.IntVal), isPercent |-> FALSE]
    ELSE IF v.StrVal # <<>> /\ v.StrVal[Len(v.StrVal)] = "%"
         THEN LET a == Atoi(SubSeq(v.StrVal, 1, Len(v.StrVal) - 1))
              IN [err |-> a.err, value |-> a.value, isPercent |-> ~a.err]
         ELSE [err |-> TRUE, value |-> WideOf(0), isPercent |-> FALSE]

GetScaledValueFromIntOrPercentMutant(v, total, roundUp) ==
    LET g == getIntOrPercentValueSafely(v)
    IN IF g.err THEN [err |-> TRUE, value |-> WideOf(0)]
       ELSE IF g.isPercent
            THEN [err |-> FALSE, value |-> Floor(WideMul(g.value, total), 100)]
            ELSE [err |-> FALSE, value |-> g.value]

\* the value is an int
GetScaledValueFromIntOrPercent(v, total, roundUp) ==
    LET g == getIntOrPercentValueSafely(v)
    IN IF g.err THEN [err |-> TRUE, value |-> WideOf(0)]
       ELSE IF g.isPercent
            THEN [err |-> FALSE,
                  value |-> IF roundUp THEN Ceil(WideMul(g.value, total), 100)
                            ELSE Floor(WideMul(g.value, total), 100)]
            ELSE [err |-> FALSE, value |-> g.value]

----------------------------------------------------------------------------
(* What a calculator returns: status "ok" with usage = <<u>>, status "err" *)
(* with a nil usage, or status "panic" (a nil pointer was dereferenced).   *)
(* locals records the values the calculator resolved on the way, when      *)
(* they are 32-bit values.                                                 *)

NoLocals == [maxUnavailable |-> 0, maxSurge |-> 0, podOverhead |-> 0, resolved |-> FALSE]

Resolved(maxUnavailable, maxSurge, podOverhead) ==
    IF InInt32(maxUnavailable) /\ InInt32(maxSurge)
    THEN [maxUnavailable |-> Int32Of(maxUnavailable), maxSurge |-> Int32Of(maxSurge),
          podOverhead |-> podOverhead, resolved |-> TRUE]
    ELSE NoLocals

RetOk(u, l) == [status |-> "ok", usage |-> <<u>>, err |-> "", locals |-> l]

RetErrMutant(e) ==
    [status |-> "err",
     usage |-> <<[Resources |-> ZeroResources, Details |-> <<>>]>>,
     err |-> e, locals |-> NoLocals]

RetErr(e) == [status |-> "err", usage |-> <<>>, err |-> e, locals |-> NoLocals]

RetPanic == [status |-> "panic", usage |-> <<>>, err |-> "", locals |-> NoLocals]

MkDetails(o, replicas, strategy, maxReplicas) ==
    [Version |-> o.APIVersion, Kind |-> o.Kind, Name |-> o.Name,
     Strategy |-> strategy, Replicas |-> replicas, MaxReplicas |-> maxReplicas]

----------------------------------------------------------------------------
(* deployment (deployment.go) *)

\* lines 95-110: the usage once resourceOverhead and podOverhead are known
deploymentUsage(d, replicas, strategyType, resourceOverhead, podOverhead, l) ==
    LET newResources == Mul(Mul(podResources(d.Spec.Template), Float64(replicas)),
                            resourceOverhead)
    IN RetOk([Resources |-> newResources,
              Details |-> MkDetails(d, replicas, strategyType, replicas + podOverhead)],
             l)

\* lines 54-90: the RollingUpdate case
deploymentRolling(d, replicas, strategy) ==
    IF strategy.RollingUpdate # <<>>
       /\ (strategy.RollingUpdate[1].MaxUnavailable = <<>>
           \/ strategy.RollingUpdate[1].MaxSurge = <<>>)
    THEN RetPanic
    ELSE
    LET maxUnavailableValue ==
            IF strategy.RollingUpdate = <<>> THEN FromString(Pct25)
            ELSE strategy.RollingUpdate[1].MaxUnavailable[1]
        maxSurgeValue ==
            IF strategy.RollingUpdate = <<>> THEN FromString(Pct25)
            ELSE strategy.RollingUpdate[1].MaxSurge[1]
        mu == GetScaledValueFromIntOrPercent(maxUnavailableValue, replicas, FALSE)
        ms == GetScaledValueFromIntOrPercent(maxSurgeValue, replicas, TRUE)
        podOverheadInt == WideSub(ms.value, mu.value)
        podOverhead == Int32Of(podOverheadInt)
    IN IF mu.err THEN RetErr("invalid value for IntOrString")
       ELSE IF ms.err THEN RetErr("invalid value for IntOrString")
       ELSE IF ~InInt32(podOverheadInt)
            THEN RetErr("maxSurge - maxUnavailable was out of bounds for int32")
       ELSE deploymentUsage(d, replicas, strategy.Type,
                            [num |-> podOverhead + replicas, den |-> replicas],
                            podOverhead,
                            Resolved(mu.value, ms.value, podOverhead))

\* lines 36-93: the switch on strategy.Type, then lines 95-110
deploymentStrategyMutant(d, replicas, strategy) ==
    CASE strategy.Type \in {"Recreate", "RollingUpdate"} ->
            deploymentRolling(d, replicas, strategy)
      [] strategy.Type = "" ->
            deploymentRolling(d, replicas,
                [Type |-> "RollingUpdate",
                 RollingUpdate |-> <<[MaxUnavailable |-> <<FromString(Pct25)>>,
                                      MaxSurge |-> <<FromString(Pct25)>>]>>])
      [] OTHER -> RetErr("deployment strategy is unknown")

deploymentStrategyMutantUnknown(d, replicas, strategy) ==
    CASE strategy.Type = "" ->
            deploymentRolling(d, replicas,
                [Type |-> "RollingUpdate",
                 RollingUpdate |-> <<[MaxUnavailable |-> <<FromString(Pct25)>>,
                                      MaxSurge |-> <<FromString(Pct25)>>]>>])
      [] strategy.Type = "RollingUpdate" ->
            deploymentRolling(d, replicas, strategy)
      [] OTHER ->
            deploymentUsage(d, replicas, strategy.Type, Float64(1), 0, NoLocals)

deploymentStrategy(d, replicas, strategy) ==
    CASE strategy.Type = "Recreate" ->
            deploymentUsage(d, replicas, strategy.Type, Float64(1), 0, NoLocals)
      [] strategy.Type = "" ->
            deploymentRolling(d, replicas,
                [Type |-> "RollingUpdate",
                 RollingUpdate |-> <<[MaxUnavailable |-> <<FromString(Pct25)>>,
                                      MaxSurge |-> <<FromString(Pct25)>>]>>])
      [] strategy.Type = "RollingUpdate" ->
            deploymentRolling(d, replicas, strategy)
      [] OTHER -> RetErr("deployment strategy is unknown")

\* lines 22-34: the usage of a deployment scaled to zero
deploymentZero(d, replicas, strategy) ==
    RetOk([Resources |-> ZeroResources,
           Details |-> MkDetails(d, replicas, strategy.Type, replicas)],
          NoLocals)

deploymentMutant(d) ==
    IF d.Spec.Replicas = <<>> THEN RetPanic
    ELSE IF d.Spec.Strategy.Type \notin {"Recreate", "", "RollingUpdate"}
         THEN RetErr("deployment strategy is unknown")
    ELSE IF d.Spec.Replicas[1] = 0
         THEN deploymentZero(d, d.Spec.Replicas[1], d.Spec.Strategy)
         ELSE deploymentStrategy(d, d.Spec.Replicas[1], d.Spec.Strategy)

deployment(d) ==
    IF d.Spec.Replicas = <<>> THEN RetPanic
    ELSE IF d.Spec.Replicas[1] = 0
         THEN deploymentZero(d, d.Spec.Replicas[1], d.Spec.Strategy)
         ELSE deploymentStrategy(d, d.Spec.Replicas[1], d.Spec.Strategy)

----------------------------------------------------------------------------
(* deploymentConfig (deploymentConfig.go) *)

\* math.Round of n / d, d > 0: half away from zero
Round(n, d) ==
    IF n >= 0 THEN (2 * n + d) \div (2 * d) ELSE -((2 * (-n) + d) \div (2 * d))

deploymentConfigUsageMutant(dc, replicas, strategyType, resourceOverhead, podOverhead, l) ==
    LET p == podResources(dc.Spec.Template)
        strategyResources == dc.Spec.Strategy.Resources
        scaled(q, extra) ==
            Round((q + extra) * replicas * resourceOverhead.num, resourceOverhead.den)
    IN RetOk([CPUMin |-> scaled(p.CPUMin, Cpu(strategyResources.Requests)),
              CPUMax |-> scaled(p.CPUMax, Cpu(strategyResources.Limits)),
              MemoryMin |-> scaled(p.MemoryMin, Memory(strategyResources.Requests)),
              MemoryMax |-> scaled(p.MemoryMax, Memory(strategyResources.Limits)),
              Details |-> MkDetails(dc, replicas, strategyType, replicas + podOverhead)],
             l)

\* lines 98-126
deploymentConfigUsage(dc, replicas, strategyType, resourceOverhead, podOverhead, l) ==
    LET p == podResources(dc.Spec.Template)
        strategyResources == dc.Spec.Strategy.Resources
        scaled(q) == Round(q * replicas * resourceOverhead.num, resourceOverhead.den)
    IN RetOk([CPUMin |-> scaled(p.CPUMin) + Cpu(strategyResources.Requests),
              CPUMax |-> scaled(p.CPUMax) + Cpu(strategyResources.Limits),
              MemoryMin |-> Round((p.MemoryMin * replicas * resourceOverhead.num)
                                    + Memory(strategyResources.Requests) * resourceOverhead.den,
                                  resourceOverhead.den),
              MemoryMax |-> Round((p.MemoryMax * replicas * resourceOverhead.num)
                                    + Memory(strategyResources.Limits) * resourceOverhead.den,
                                  resourceOverhead.den),
              Details |-> MkDetails(dc, replicas, strategyType, replicas + podOverhead)],
             l)

\* lines 57-93: the Rolling case
deploymentConfigRolling(dc, replicas, strategy) ==
    IF strategy.RollingParams # <<>>
       /\ (strategy.RollingParams[1].MaxUnavailable = <<>>
           \/ strategy.RollingParams[1].MaxSurge = <<>>)
    THEN RetPanic
    ELSE
    LET maxUnavailableValue ==
            IF strategy.RollingParams = <<>> THEN FromString(Pct25)
            ELSE strategy.RollingParams[1].MaxUnavailable[1]
        maxSurgeValue ==
            IF strategy.RollingParams = <<>> THEN FromString(Pct25)
            ELSE strategy.RollingParams[1].MaxSurge[1]
        mu == GetScaledValueFromIntOrPercent(maxUnavailableValue, replicas, FALSE)
        ms == GetScaledValueFromIntOrPercent(maxSurgeValue, replicas, TRUE)
        podOverheadInt == WideSub(ms.value, mu.value)
        podOverhead == Int32Of(podOverheadInt)
    IN IF mu.err THEN RetErr("invalid value for IntOrString")
       ELSE IF ms.err THEN RetErr("invalid value for IntOrString")
       ELSE IF ~InInt32(podOverheadInt)
            THEN RetErr("maxSurge - maxUnavailable was out of bounds for int32")
       ELSE deploymentConfigUsage(dc, replicas, strategy.Type,
                                  [num |-> podOverhead + replicas, den |-> replicas],
                                  podOverhead,
                                  Resolved(mu.value, ms.value, podOverhead))

deploymentConfig(dc) ==
    LET replicas == dc.Spec.Replicas
        strategy == dc.Spec.Strategy
    IN IF replicas = 0
       THEN RetOk([CPUMin |-> 0, CPUMax |-> 0, MemoryMin |-> 0, MemoryMax |-> 0,
                   Details |-> MkDetails(dc, replicas, strategy.Type, replicas)],
                  NoLocals)
       ELSE CASE strategy.Type = "Recreate" ->
                    deploymentConfigUsage(dc, replicas, strategy.Type, Float64(1), 0, NoLocals)
              [] strategy.Type = "" ->
                    deploymentConfigRolling(dc, replicas,
                        [Type |-> "Rolling",
                         RollingParams |-> <<[MaxUnavailable |-> <<FromString(Pct25)>>,
                                              MaxSurge |-> <<FromString(Pct25)>>]>>])
              [] strategy.Type = "Rolling" ->
                    deploymentConfigRolling(dc, replicas, strategy)
              [] OTHER -> RetErr("deploymentConfig strategy is unknown")

----------------------------------------------------------------------------
(* statefulSet (statefulset.go) *)

statefulSetUsageMutant(s, replicas, strategyType, maxUnavailable, l) ==
    LET p == calcPodResources(s.Spec.Template)
        rolloutResources ==
            Add(MulInt32(p.Containers, replicas),
                MulInt32(p.MaxResources, maxUnavailable))
        normalResources == MulInt32(p.Containers, replicas)
    IN RetOk([NormalResources |-> normalResources,
              RolloutResources |-> rolloutResources,
              Details |-> MkDetails(s, replicas, strategyType, replicas)],
             l)

statefulSetUsageMutantInit(s, replicas, strategyType, maxUnavailable, l) ==
    LET p == calcPodResources(s.Spec.Template)
        rolloutResources ==
            Add(MulInt32(p.Containers, replicas - maxUnavailable),
                MulInt32(p.InitContainers, maxUnavailable))
        normalResources == MulInt32(p.Containers, replicas)
    IN RetOk([NormalResources |-> normalResources,
              RolloutResources |-> rolloutResources,
              Details |-> MkDetails(s, replicas, strategyType, replicas)],
             l)

\* lines 68-85
statefulSetUsage(s, replicas, strategyType, maxUnavailable, l) ==
    LET p == calcPodResources(s.Spec.Template)
        rolloutResources ==
            Add(MulInt32(p.Containers, replicas - maxUnavailable),
                MulInt32(p.MaxResources, maxUnavailable))
        normalResources == MulInt32(p.Containers, replicas)
    IN RetOk([NormalResources |-> normalResources,
              RolloutResources |-> rolloutResources,
              Details |-> MkDetails(s, replicas, strategyType, replicas)],
             l)

statefulSetRollingMutant(s, replicas, strategy) ==
    IF strategy.RollingUpdate # <<>> /\ strategy.RollingUpdate[1].MaxUnavailable = <<>>
    THEN RetPanic
    ELSE
    LET maxUnavailableValue ==
            IF strategy.RollingUpdate = <<>> THEN FromInt32(1)
            ELSE strategy.RollingUpdate[1].MaxUnavailable[1]
        mu == GetScaledValueFromIntOrPercent(maxUnavailableValue, replicas, FALSE)
    IN IF mu.err THEN RetErr("invalid value for IntOrString")
       ELSE IF ~InInt32(mu.value)
            THEN RetErr("maxUnavailableInt out of int32 boundaries")
       ELSE statefulSetUsage(s, replicas, strategy.Type, Int32Of(mu.value),
                             [maxUnavailable |-> Int32Of(mu.value), maxSurge |-> 0,
                              podOverhead |-> 0, resolved |-> TRUE])

\* lines 44-65: the RollingUpdate case
statefulSetRolling(s, replicas, strategy) ==
    IF strategy.RollingUpdate # <<>> /\ strategy.RollingUpdate[1].MaxUnavailable = <<>>
    THEN RetPanic
    ELSE
    LET maxUnavailableValue ==
            IF strategy.RollingUpdate = <<>> THEN FromInt32(1)
            ELSE strategy.RollingUpdate[1].MaxUnavailable[1]
        mu == GetScaledValueFromIntOrPercent(maxUnavailableValue, replicas, TRUE)
    IN IF mu.err THEN RetErr("invalid value for IntOrString")
       ELSE IF ~InInt32(mu.value)
            THEN RetErr("maxUnavailableInt out of int32 boundaries")
       ELSE statefulSetUsage(s, replicas, strategy.Type, Int32Of(mu.value),
                             [maxUnavailable |-> Int32Of(mu.value), maxSurge |-> 0,
                              podOverhead |-> 0, resolved |-> TRUE])

statefulSetMutant(s) ==
    LET strategy == s.Spec.UpdateStrategy
        replicas == IF s.Spec.Replicas # <<>> THEN s.Spec.Replicas[1] ELSE 1
    IN CASE strategy.Type = "RollingUpdate" ->
                statefulSetRolling(s, replicas, strategy)
         [] strategy.Type \in {"", "OnDelete"} ->
                statefulSetUsage(s, replicas,
                                 IF strategy.Type = "" THEN "RollingUpdate" ELSE strategy.Type,
                                 1,
                                 [maxUnavailable |-> 1, maxSurge |-> 0,
                                  podOverhead |-> 0, resolved |-> TRUE])
         [] OTHER ->
                statefulSetUsage(s, replicas, strategy.Type, 0,
                                 [maxUnavailable |-> 0, maxSurge |-> 0,
                                  podOverhead |-> 0, resolved |-> TRUE])

statefulSet(s) ==
    LET strategy == s.Spec.UpdateStrategy
        replicas == IF s.Spec.Replicas # <<>> THEN s.Spec.Replicas[1] ELSE 1
    IN CASE strategy.Type = "OnDelete" ->
                statefulSetUsage(s, replicas, strategy.Type, replicas,
                                 [maxUnavailable |-> replicas, maxSurge |-> 0,
                                  podOverhead |-> 0, resolved |-> TRUE])
         [] strategy.Type = "" ->
                statefulSetRolling(s, replicas,
                    [Type |-> "RollingUpdate",
                     RollingUpdate |-> <<[MaxUnavailable |-> <<FromInt32(1)>>]>>])
         [] strategy.Type = "RollingUpdate" ->
                statefulSetRolling(s, replicas, strategy)
         [] OTHER ->
                statefulSetUsage(s, replicas, strategy.Type, 0,
                                 [maxUnavailable |-> 0, maxSurge |-> 0,
                                  podOverhead |-> 0, resolved |-> TRUE])

----------------------------------------------------------------------------
(* daemonSet, job, cronjob *)

daemonSetMutant(dSet) ==
    LET p == calcPodResources(dSet.Spec.Template)
    IN RetOk([NormalResources |-> p.Containers,
              RolloutResources |-> Add(p.Containers, p.InitContainers),
              Details |-> MkDetails(dSet, 1, "", 1)],
             NoLocals)

daemonSet(dSet) ==
    LET p == calcPodResources(dSet.Spec.Template)
    IN RetOk([NormalResources |-> p.Containers,
              RolloutResources |-> p.MaxResources,
              Details |-> MkDetails(dSet, 1, "", 1)],
             NoLocals)

job(j) ==
    LET p == calcPodResources(j.Spec.Template)
    IN RetOk([NormalResources |-> p.Containers,
              RolloutResources |-> p.MaxResources,
              Details |-> MkDetails(j, 0, "", 0)],
             NoLocals)

cronjob(cj) ==
    LET p == calcPodResources(cj.Spec.JobTemplate.Spec.Template)
    IN RetOk([NormalResources |-> p.Containers,
              RolloutResources |-> p.MaxResources,
              Details |-> MkDetails(cj, 0, "", 0)],
             NoLocals)

\* pod (pod.go): the four quantities podResources adds up
pod(p) ==
    LET r == podResources(p.Spec)
    IN RetOk([CpuMin |-> r.CPUMin, CpuMax |-> r.CPUMax,
              MemoryMin |-> r.MemoryMin, MemoryMax |-> r.MemoryMax,
              Details |-> MkDetails(p, 0, "", 0)],
             NoLocals)

----------------------------------------------------------------------------
(* The decoded objects the calculators are run on *)

Opt(S) == {<<>>} \cup {<<v>> : v \in S}

TmplPlain == [Containers |-> <<Main>>, InitContainers |-> <<>>]

TmplBigInit == [Containers |-> <<Main>>, InitContainers |-> <<Big>>]

TmplSmallInit == [Containers |-> <<Main, Small>>, InitContainers |-> <<Small>>]

TmplMemInit == [Containers |-> <<Small>>, InitContainers |-> <<Main>>]

Templates == {TmplPlain, TmplBigInit, TmplSmallInit, TmplMemInit}

IntOrStringValues ==
    {FromInt32(n) : n \in 0..LiteralBound}
    \cup {FromString(Pct25), FromString(Pct50), FromString(Pct100), FromString(NoPct),
          FromString(PctHuge)}

ReplicaValues == (0..ReplicasBound) \cup {10}

RollingOpts ==
    Opt([MaxUnavailable : Opt(IntOrStringValues), MaxSurge : Opt(IntOrStringValues)])

DeploymentObjects ==
    [Kind : {"Deployment"}, APIVersion : {"apps/v1"}, Name : {"myapp"},
     Spec : [Replicas : Opt(ReplicaValues),
             Strategy : [Type : {"Recreate", "", "RollingUpdate", "BlueGreen"},
                         RollingUpdate : RollingOpts],
             Template : Templates]]

NoStrategyResources == [Requests |-> NoList, Limits |-> NoList]

SomeStrategyResources ==
    [Requests |-> ("cpu" :> 50) @@ ("memory" :> 1),
     Limits |-> ("cpu" :> 70) @@ ("memory" :> 2)]

DeploymentConfigObjects ==
    [Kind : {"DeploymentConfig"}, APIVersion : {"apps.openshift.io/v1"}, Name : {"myapp"},
     Spec : [Replicas : ReplicaValues,
             Strategy : [Type : {"Recreate", "", "Rolling", "Custom"},
                         RollingParams : RollingOpts,
                         Resources : {NoStrategyResources, SomeStrategyResources}],
             Template : Templates]]

StatefulSetObjects ==
    [Kind : {"StatefulSet"}, APIVersion : {"apps/v1"}, Name : {"myapp"},
     Spec : [Replicas : Opt(ReplicaValues),
             UpdateStrategy : [Type : {"OnDelete", "", "RollingUpdate", "Partitioned"},
                               RollingUpdate :
                                   Opt([MaxUnavailable : Opt(IntOrStringValues)])],
             Template : Templates]]

DaemonSetObjects ==
    [Kind : {"DaemonSet"}, APIVersion : {"apps/v1"}, Name : {"myapp"},
     Spec : [Template : PodSpecs]]

JobObjects ==
    [Kind : {"Job"}, APIVersion : {"batch/v1"}, Name : {"myapp"},
     Spec : [Template : PodSpecs]]

CronJobObjects ==
    [Kind : {"CronJob"}, APIVersion : {"batch/v1"}, Name : {"myapp"},
     Spec : [JobTemplate : [Spec : [Template : PodSpecs]]]]

PodObjects ==
    [Kind : {"Pod"}, APIVersion : {"v1"}, Name : {"myapp"}, Spec : PodSpecs]

Objects ==
    DeploymentObjects \cup DeploymentConfigObjects \cup StatefulSetObjects
    \cup DaemonSetObjects \cup JobObjects \cup CronJobObjects \cup PodObjects

NotCalled == [status |-> "none", usage |-> <<>>, err |-> "", locals |-> NoLocals]

----------------------------------------------------------------------------
(* One calculator invocation on one decoded object *)

LoopIdle ==
    /\ maxRollouts = -1
    /\ consumed = <<>>
    /\ summary = <<>>
    /\ pc = "idle"
    /\ printed = <<>>

InitCalc ==
    /\ obj \in Objects
    /\ ret = NotCalled
    /\ cpc = "call"
    /\ LoopIdle

Return(r) ==
    /\ ret' = r
    /\ cpc' = "done"
    /\ UNCHANGED <<obj, maxRollouts, consumed, summary, pc, printed>>

CallDeployment == cpc = "call" /\ obj.Kind = "Deployment" /\ Return(deployment(obj))

CallDeploymentConfig ==
    cpc = "call" /\ obj.Kind = "DeploymentConfig" /\ Return(deploymentConfig(obj))

CallStatefulSet == cpc = "call" /\ obj.Kind = "StatefulSet" /\ Return(statefulSet(obj))

CallDaemonSet == cpc = "call" /\ obj.Kind = "DaemonSet" /\ Return(daemonSet(obj))

CallJob == cpc = "call" /\ obj.Kind = "Job" /\ Return(job(obj))

CallCronJob == cpc = "call" /\ obj.Kind = "CronJob" /\ Return(cronjob(obj))

CallPod == cpc = "call" /\ obj.Kind = "Pod" /\ Return(pod(obj))

NextCalc ==
    \/ CallDeployment
    \/ CallDeploymentConfig
    \/ CallStatefulSet
    \/ CallDaemonSet
    \/ CallJob
    \/ CallCronJob
    \/ CallPod

SpecCalc == InitCalc /\ [][NextCalc]_vars

----------------------------------------------------------------------------
(* Total: the aggregation printSummary calls *)

Diff(higher, lower) ==
    [CPUMin |-> higher.CPUMin - lower.CPUMin, CPUMax |-> higher.CPUMax - lower.CPUMax,
     MemoryMin |-> higher.MemoryMin - lower.MemoryMin,
     MemoryMax |-> higher.MemoryMax - lower.MemoryMax]

RECURSIVE InsertDescending(_, _)
InsertDescending(x, sorted) ==
    IF sorted = <<>> THEN <<x>>
    ELSE IF x >= Head(sorted) THEN <<x>> \o sorted
    ELSE <<Head(sorted)>> \o InsertDescending(x, Tail(sorted))

RECURSIVE SortDescending(_)
SortDescending(q) ==
    IF q = <<>> THEN <<>> ELSE InsertDescending(Head(q), SortDescending(Tail(q)))

RECURSIVE SumFirst(_, _)
SumFirst(q, n) ==
    IF n <= 0 \/ q = <<>> THEN 0 ELSE Head(q) + SumFirst(Tail(q), n - 1)

RECURSIVE SumRollout(_)
SumRollout(usages) ==
    IF usages = <<>> THEN ZeroResources
    ELSE Add(Head(usages).RolloutResources, SumRollout(Tail(usages)))

RECURSIVE SumNormal(_)
SumNormal(usages) ==
    IF usages = <<>> THEN ZeroResources
    ELSE Add(Head(usages).NormalResources, SumNormal(Tail(usages)))

\* the deltas of one field, in the order of the list
Deltas(usages, f) ==
    [k \in 1..Len(usages) |->
        Diff(usages[k].RolloutResources, usages[k].NormalResources)[f]]

TopDeltas(maxRollout, usages, f) == SumFirst(SortDescending(Deltas(usages, f)), maxRollout)

LimitedTotal(maxRollout, usages) ==
    Add(SumNormal(usages),
        [CPUMin |-> TopDeltas(maxRollout, usages, "CPUMin"),
         CPUMax |-> TopDeltas(maxRollout, usages, "CPUMax"),
         MemoryMin |-> TopDeltas(maxRollout, usages, "MemoryMin"),
         MemoryMax |-> TopDeltas(maxRollout, usages, "MemoryMax")])

\* the workloads picked once, by their CPUMin delta, for all four fields
RECURSIVE SumPicked(_, _, _)
SumPicked(usages, picked, k) ==
    IF k = 0 THEN ZeroResources
    ELSE Add(SumPicked(usages, picked, k - 1),
             IF k \in picked
             THEN Diff(usages[k].RolloutResources, usages[k].NormalResources)
             ELSE ZeroResources)

TotalMutantJoint(maxRollout, usages) ==
    IF maxRollout < 0 THEN SumRollout(usages)
    ELSE LET n == IF maxRollout < Len(usages) THEN maxRollout ELSE Len(usages)
             d == Deltas(usages, "CPUMin")
             picked == CHOOSE S \in SUBSET (1..Len(usages)) :
                          /\ Cardinality(S) = n
                          /\ \A i \in S : \A j \in (1..Len(usages)) \ S : d[i] >= d[j]
         IN Add(SumNormal(usages), SumPicked(usages, picked, Len(usages)))

TotalMutantOnlyMinusOne(maxRollout, usages) ==
    IF maxRollout = -1 THEN SumRollout(usages) ELSE LimitedTotal(maxRollout, usages)

TotalMutantZeroUnlimited(maxRollout, usages) ==
    IF maxRollout <= 0 THEN SumRollout(usages) ELSE LimitedTotal(maxRollout, usages)

TotalMutantBeyondLength(maxRollout, usages) ==
    IF maxRollout < 0 THEN SumRollout(usages)
    ELSE IF maxRollout > Len(usages) THEN SumNormal(usages)
    ELSE LimitedTotal(maxRollout, usages)

Total(maxRollout, usages) ==
    IF maxRollout < 0 THEN SumRollout(usages) ELSE LimitedTotal(maxRollout, usages)

----------------------------------------------------------------------------
(* ResourceQuotaFromYaml (calc.go) and the command's run loop *)

ErrResourceNotSupported == "resource not supported"

CalculationError(version, kind, err) ==
    [type |-> "CalculationError", Version |-> version, Kind |-> kind, cause |-> err]

\* errors.Is: the error or the cause it unwraps to
ErrorsIs(err, target) == err.cause = target

NoError == [type |-> "nil", Version |-> "", Kind |-> "", cause |-> ""]

\* CalculationError.Unwrap
Unwrap(err) == err.cause

WrappedMutant(o, r) ==
    CASE r.status = "ok" -> [status |-> "ok", usage |-> r.usage, err |-> NoError]
      [] r.status = "err" ->
            [status |-> "err", usage |-> <<>>,
             err |-> [type |-> "wrapError", Version |-> "", Kind |-> "",
                      cause |-> r.err]]
      [] OTHER -> [status |-> "panic", usage |-> <<>>, err |-> NoError]

\* a calculator's result behind the type switch: its error, if any, wrapped
Wrapped(o, r) ==
    CASE r.status = "ok" -> [status |-> "ok", usage |-> r.usage, err |-> NoError]
      [] r.status = "err" ->
            [status |-> "err", usage |-> <<>>,
             err |-> CalculationError(o.APIVersion, o.Kind, r.err)]
      [] OTHER -> [status |-> "panic", usage |-> <<>>, err |-> NoError]

\* a document is what decoder.Decode makes of it: Decode is "ok", or
\* "notRegistered" (no such kind in the scheme), or "malformed"
ResourceQuotaFromYaml(yamlData) ==
    LET o == yamlData.Object
    IN IF yamlData.Decode = "malformed"
       THEN [status |-> "err", usage |-> <<>>,
             err |-> [type |-> "wrapError", Version |-> "", Kind |-> "",
                      cause |-> "decoding yaml data"]]
       ELSE IF yamlData.Decode = "notRegistered"
       THEN [status |-> "err", usage |-> <<>>,
             err |-> CalculationError(o.APIVersion, o.Kind, ErrResourceNotSupported)]
       ELSE CASE o.Kind = "DeploymentConfig" -> Wrapped(o, deploymentConfig(o))
              [] o.Kind = "Deployment" -> Wrapped(o, deployment(o))
              [] o.Kind = "StatefulSet" -> Wrapped(o, statefulSet(o))
              [] o.Kind = "DaemonSet" -> Wrapped(o, daemonSet(o))
              [] o.Kind = "Job" -> Wrapped(o, job(o))
              [] o.Kind = "CronJob" -> Wrapped(o, cronjob(o))
              [] o.Kind = "Pod" -> Wrapped(o, pod(o))
              [] OTHER ->
                    [status |-> "err", usage |-> <<>>,
                     err |-> CalculationError(o.APIVersion, o.Kind, ErrResourceNotSupported)]

\* the four totals printSummary formats
printSummary(flag, usage) == Total(flag, usage)

\* the documents the input is made of.  The Deployment, DeploymentConfig and
\* Pod calculators of this tree return the single Resources field, which
\* Total does not read: such a document appears here only where it fails.
Workload(kind, version, spec) ==
    [Kind |-> kind, APIVersion |-> version, Name |-> "myapp", Spec |-> spec]

Decoded(o) == [Decode |-> "ok", Object |-> o]

StsRolling ==
    Decoded(Workload("StatefulSet", "apps/v1",
        [Replicas |-> <<2>>,
         UpdateStrategy |-> [Type |-> "RollingUpdate", RollingUpdate |-> <<>>],
         Template |-> TmplBigInit]))

StsOnDelete ==
    Decoded(Workload("StatefulSet", "apps/v1",
        [Replicas |-> <<3>>,
         UpdateStrategy |-> [Type |-> "OnDelete", RollingUpdate |-> <<>>],
         Template |-> TmplMemInit]))

DsMemInit == Decoded(Workload("DaemonSet", "apps/v1", [Template |-> TmplMemInit]))

JobBigInit == Decoded(Workload("Job", "batch/v1", [Template |-> TmplBigInit]))

CronPlain ==
    Decoded(Workload("CronJob", "batch/v1",
        [JobTemplate |-> [Spec |-> [Template |-> TmplPlain]]]))

ConfigMapDoc == Decoded(Workload("ConfigMap", "v1", [Data |-> <<>>]))

WidgetDoc ==
    [Decode |-> "notRegistered", Object |-> Workload("Widget", "example.com/v1", <<>>)]

UnknownStrategyDoc ==
    Decoded(Workload("Deployment", "apps/v1",
        [Replicas |-> <<1>>,
         Strategy |-> [Type |-> "BlueGreen", RollingUpdate |-> <<>>],
         Template |-> TmplPlain]))

CustomStrategyDoc ==
    Decoded(Workload("DeploymentConfig", "apps.openshift.io/v1",
        [Replicas |-> 2,
         Strategy |-> [Type |-> "Custom", RollingParams |-> <<>>,
                       Resources |-> NoStrategyResources],
         Template |-> TmplPlain]))

\* a StatefulSet whose maxUnavailable scales to 3000000000 pods
OverflowDoc ==
    Decoded(Workload("StatefulSet", "apps/v1",
        [Replicas |-> <<1>>,
         UpdateStrategy |->
             [Type |-> "RollingUpdate",
              RollingUpdate |-> <<[MaxUnavailable |-> <<FromString(PctHuge)>>]>>],
         Template |-> TmplPlain]))

MalformedDoc == [Decode |-> "malformed", Object |-> Workload("", "", <<>>)]

Documents ==
    {StsRolling, StsOnDelete, DsMemInit, JobBigInit, CronPlain,
     ConfigMapDoc, WidgetDoc, UnknownStrategyDoc, CustomStrategyDoc, OverflowDoc,
     MalformedDoc}

CalcIdle == obj = <<>> /\ ret = NotCalled /\ cpc = "idle"

Init ==
    /\ maxRollouts \in (-2)..MaxRolloutFlag
    /\ consumed = <<>>
    /\ summary = <<>>
    /\ pc = "loop"
    /\ printed = <<>>
    /\ CalcIdle

ReadDocumentMutantAbort ==
    /\ pc = "loop"
    /\ Len(consumed) < MaxDocs
    /\ \E data \in Documents :
          LET r == ResourceQuotaFromYaml(data)
          IN /\ consumed' = Append(consumed, data)
             /\ obj' = data
             /\ ret' = r
             /\ summary' = IF r.status = "ok" THEN Append(summary, r.usage[1])
                           ELSE summary
             /\ pc' = CASE r.status = "ok" -> "loop"
                        [] r.status = "err" -> "failed"
                        [] OTHER -> "panicked"
    /\ UNCHANGED <<cpc, maxRollouts, printed>>

ReadDocumentMutantSkip ==
    /\ pc = "loop"
    /\ Len(consumed) < MaxDocs
    /\ \E data \in Documents :
          LET r == ResourceQuotaFromYaml(data)
          IN /\ consumed' = Append(consumed, data)
             /\ obj' = data
             /\ ret' = r
             /\ summary' = IF r.status = "ok" THEN Append(summary, r.usage[1])
                           ELSE summary
             /\ pc' = CASE r.status = "ok" -> "loop"
                        [] r.status = "err" -> "loop"
                        [] OTHER -> "panicked"
    /\ UNCHANGED <<cpc, maxRollouts, printed>>

\* one turn of the loop: Read returns a document, ResourceQuotaFromYaml runs;
\* obj and ret hold the document and what ResourceQuotaFromYaml returned
ReadDocument ==
    /\ pc = "loop"
    /\ Len(consumed) < MaxDocs
    /\ \E data \in Documents :
          LET r == ResourceQuotaFromYaml(data)
          IN /\ consumed' = Append(consumed, data)
             /\ obj' = data
             /\ ret' = r
             /\ summary' = IF r.status = "ok" THEN Append(summary, r.usage[1])
                           ELSE summary
             /\ pc' = CASE r.status = "ok" -> "loop"
                        [] r.status = "err"
                           /\ ErrorsIs(r.err, ErrResourceNotSupported) -> "loop"
                        [] r.status = "err" -> "failed"
                        [] OTHER -> "panicked"
    /\ UNCHANGED <<cpc, maxRollouts, printed>>

\* Read fails with something other than io.EOF
ReadFails ==
    /\ pc = "loop"
    /\ pc' = "readFailed"
    /\ UNCHANGED <<obj, ret, cpc, maxRollouts, consumed, summary, printed>>

\* Read returns io.EOF: the loop ends; printDetailed and printSummary both
\* end in printSummary(summary)
ReadEOF ==
    /\ pc = "loop"
    /\ printed' = <<printSummary(maxRollouts, summary)>>
    /\ pc' = "printed"
    /\ UNCHANGED <<obj, ret, cpc, maxRollouts, consumed, summary>>

Next == ReadDocument \/ ReadFails \/ ReadEOF

Spec == Init /\ [][Next]_vars

\* the loop keeps turning and the input is finite: Read returns io.EOF in
\* the end
SpecLive == Spec /\ WF_vars(Next)

----------------------------------------------------------------------------
(* One call of the arithmetic of Resources (calc.go), on its own *)

\* quantities in milli-units: none, 3m, 250m; none and 3 bytes
CpuValues == {0, 3, 250}

MemoryValues == {0, 3000}

ResourcesValues ==
    [CPUMin : CpuValues, CPUMax : CpuValues,
     MemoryMin : MemoryValues, MemoryMax : MemoryValues]

\* the float64 factors: 0, 0.5, 1.0, 1.5, 2.0 and -0.5
Factors ==
    {[num |-> 0, den |-> 1], [num |-> 1, den |-> 2], [num |-> 1, den |-> 1],
     [num |-> 3, den |-> 2], [num |-> 2, den |-> 1], [num |-> -1, den |-> 2]}

Int32Values == (-1)..ReplicasBound

\* a call: the operation, its receiver r and its argument y
ArithCalls ==
    [op : {"Add"}, r : ResourcesValues, y : ResourcesValues]
    \cup [op : {"Mul"}, r : ResourcesValues, y : Factors]
    \cup [op : {"MulInt32"}, r : ResourcesValues, y : Int32Values]
    \cup {[op |-> "statefulSet", r |-> calcPodResources(t),
           y |-> [replicas |-> n, maxUnavailable |-> u]] :
             t \in Templates, n \in 0..ReplicasBound, u \in 0..ReplicasBound}

InitArith ==
    /\ obj \in ArithCalls
    /\ ret = NotCalled
    /\ cpc = "call"
    /\ LoopIdle

\* the method works on its copy of the receiver and returns the copy
ApplyAddMutant ==
    /\ cpc = "call"
    /\ obj.op = "Add"
    /\ ret' = Add(obj.r, obj.y)
    /\ obj' = [obj EXCEPT !.r = Add(obj.r, obj.y)]
    /\ cpc' = "done"
    /\ UNCHANGED <<maxRollouts, consumed, summary, pc, printed>>

ApplyAdd == cpc = "call" /\ obj.op = "Add" /\ Return(Add(obj.r, obj.y))

ApplyMul == cpc = "call" /\ obj.op = "Mul" /\ Return(Mul(obj.r, obj.y))

ApplyMulInt32 == cpc = "call" /\ obj.op = "MulInt32" /\ Return(MulInt32(obj.r, obj.y))

\* statefulset.go lines 68-70: the rollout and the normal resources, both
\* from the same podResources
ApplyStatefulSetResources ==
    /\ cpc = "call"
    /\ obj.op = "statefulSet"
    /\ LET podRes == obj.r
           replicas == obj.y.replicas
           maxUnavailable == obj.y.maxUnavailable
           rolloutResources ==
               Add(MulInt32(podRes.Containers, replicas - maxUnavailable),
                   MulInt32(podRes.MaxResources, maxUnavailable))
           normalResources == MulInt32(podRes.Containers, replicas)
       IN Return([NormalResources |-> normalResources,
                  RolloutResources |-> rolloutResources])

NextArith == ApplyAdd \/ ApplyMul \/ ApplyMulInt32 \/ ApplyStatefulSetResources

SpecArith == InitArith /\ [][NextArith]_vars

----------------------------------------------------------------------------
(* Properties of the calculators, checked under SpecCalc *)

Called(kind) == cpc = "done" /\ obj.Kind = kind

\* what a container declares for a field, zero when it declares nothing
Declared(container, f) ==
    LET list == IF f \in {"CPUMin", "MemoryMin"} THEN container.Requests
                ELSE container.Limits
        key == IF f \in {"CPUMin", "CPUMax"} THEN "cpu" ELSE "memory"
    IN IF key \in DOMAIN list THEN list[key] ELSE 0

RECURSIVE SumDeclared(_, _, _)
SumDeclared(cs, f, k) ==
    IF k = 0 THEN 0 ELSE SumDeclared(cs, f, k - 1) + Declared(cs[k], f)

\* C5: calcPodResources returns the field-wise sum of the ordinary containers
\* as Containers, the field-wise sum of the init containers as InitContainers
\* (an undeclared request or limit counts as zero), and in every field of
\* MaxResources the larger of the two sums, never their sum.
C5_PodResourcesSumAndMax ==
    (cpc = "done" /\ obj.Kind \in {"DaemonSet", "Job"}) =>
        LET t == obj.Spec.Template
            p == calcPodResources(t)
        IN /\ ret.status = "ok"
           /\ ret.usage[1].NormalResources = p.Containers
           /\ ret.usage[1].RolloutResources = p.MaxResources
           /\ \A f \in Fields :
                LET c == SumDeclared(t.Containers, f, Len(t.Containers))
                    i == SumDeclared(t.InitContainers, f, Len(t.InitContainers))
                IN /\ p.Containers[f] = c
                   /\ p.InitContainers[f] = i
                   /\ p.MaxResources[f] \in {c, i}
                   /\ p.MaxResources[f] >= c
                   /\ p.MaxResources[f] >= i

\* a job whose init containers need more cpu than its containers, and whose
\* containers need more memory limit than its init containers, both non-zero
C5_Witness ==
    /\ Called("Job")
    /\ LET p == calcPodResources(obj.Spec.Template)
       IN /\ p.Containers.CPUMin > 0
          /\ p.InitContainers.CPUMin > p.Containers.CPUMin
          /\ p.InitContainers.MemoryMax > 0
          /\ p.Containers.MemoryMax > p.InitContainers.MemoryMax
          /\ ret.usage[1].RolloutResources.CPUMin = p.InitContainers.CPUMin
          /\ ret.usage[1].RolloutResources.MemoryMax = p.Containers.MemoryMax

RollingDeployment ==
    /\ Called("Deployment")
    /\ obj.Spec.Replicas # <<>>
    /\ obj.Spec.Replicas[1] > 0
    /\ obj.Spec.Strategy.Type \in {"RollingUpdate", ""}
    /\ ret.status = "ok"

\* the deployment of the documentation: ten replicas, the default 25% / 25%
DefaultTenReplicas ==
    /\ RollingDeployment
    /\ obj.Spec.Replicas[1] = 10
    /\ obj.Spec.Strategy.RollingUpdate = <<>>

\* C6: a Deployment with replicas > 0 and strategy RollingUpdate (or no type)
\* reports MaxReplicas = replicas + maxSurge; ten replicas with the default
\* 25% / 25% give maxUnavailable 2, maxSurge 3 and MaxReplicas 13.
C6_MaxReplicasIsReplicasPlusSurge ==
    /\ RollingDeployment =>
          ret.usage[1].Details.MaxReplicas = obj.Spec.Replicas[1] + ret.locals.maxSurge
    /\ DefaultTenReplicas =>
          /\ ret.locals.maxUnavailable = 2
          /\ ret.locals.maxSurge = 3
          /\ ret.usage[1].Details.MaxReplicas = 13

\* the maxUnavailable and maxSurge the specification gives a deployment:
\* those resolved for a rolling update, replicas and 0 for Recreate
SpecUnavailable == IF obj.Spec.Strategy.Type = "Recreate" THEN obj.Spec.Replicas[1]
                   ELSE ret.locals.maxUnavailable

SpecSurge == IF obj.Spec.Strategy.Type = "Recreate" THEN 0 ELSE ret.locals.maxSurge

\* C7: a Deployment with replicas > 0 needs during a rollout, in every field,
\* Containers x (replicas - maxUnavailable) + MaxResources x (maxSurge +
\* maxUnavailable).
C7_RolloutFormula ==
    (/\ Called("Deployment")
     /\ obj.Spec.Replicas # <<>>
     /\ obj.Spec.Replicas[1] > 0
     /\ ret.status = "ok") =>
        LET p == calcPodResources(obj.Spec.Template)
        IN \A f \in Fields :
              ret.usage[1].Resources[f] =
                  p.Containers[f] * (obj.Spec.Replicas[1] - SpecUnavailable)
                  + p.MaxResources[f] * (SpecSurge + SpecUnavailable)

\* C8: a Deployment with replicas = 0 is computed without error for every
\* strategy and every pod template: all four resources are zero and
\* Replicas = MaxReplicas = 0.
C8_ZeroReplicas ==
    (Called("Deployment") /\ obj.Spec.Replicas = <<0>>) =>
        /\ ret.status = "ok"
        /\ \A f \in Fields : ret.usage[1].Resources[f] = 0
        /\ ret.usage[1].Details.Replicas = 0
        /\ ret.usage[1].Details.MaxReplicas = 0

\* zero replicas under a strategy type the calculator does not know, with a
\* rolling-update block whose values could not be scaled
C8_Witness ==
    /\ Called("Deployment")
    /\ obj.Spec.Replicas = <<0>>
    /\ obj.Spec.Strategy.Type = "BlueGreen"
    /\ obj.Spec.Strategy.RollingUpdate # <<>>
    /\ obj.Spec.Strategy.RollingUpdate[1].MaxSurge = <<FromString(NoPct)>>
    /\ obj.Spec.Template = TmplBigInit
    /\ ret.status = "ok"

\* the percentage a percent string of the inputs stands for
PercentOf(str) == CASE str = Pct25 -> 25 [] str = Pct50 -> 50 [] str = Pct100 -> 100

IsPercent(v) == v.Type = "String" /\ v.StrVal \in {Pct25, Pct50, Pct100}

\* replicas, and the maxUnavailable / maxSurge values in force, of the
\* Deployment or DeploymentConfig in obj
ReplicasOf == IF obj.Kind = "Deployment" THEN obj.Spec.Replicas[1] ELSE obj.Spec.Replicas

ParamsOf == IF obj.Kind = "Deployment" THEN obj.Spec.Strategy.RollingUpdate
            ELSE obj.Spec.Strategy.RollingParams

UnavailableInForce ==
    IF obj.Spec.Strategy.Type = "" \/ ParamsOf = <<>> THEN FromString(Pct25)
    ELSE ParamsOf[1].MaxUnavailable[1]

SurgeInForce ==
    IF obj.Spec.Strategy.Type = "" \/ ParamsOf = <<>> THEN FromString(Pct25)
    ELSE ParamsOf[1].MaxSurge[1]

\* C9: for a Deployment or DeploymentConfig with replicas > 0, a percentage
\* maxUnavailable p resolves to floor(p x replicas / 100), a percentage
\* maxSurge p resolves to ceil(p x replicas / 100), and a literal integer
\* resolves to itself.
C9_PercentRounding ==
    (/\ cpc = "done"
     /\ obj.Kind \in {"Deployment", "DeploymentConfig"}
     /\ ret.locals.resolved) =>
        LET n == ReplicasOf
            u == ret.locals.maxUnavailable
            g == ret.locals.maxSurge
        IN /\ n > 0
           /\ IsPercent(UnavailableInForce) =>
                LET x == PercentOf(UnavailableInForce.StrVal) * n
                IN 100 * u <= x /\ x < 100 * (u + 1)
           /\ IsPercent(SurgeInForce) =>
                LET x == PercentOf(SurgeInForce.StrVal) * n
                IN 100 * (g - 1) < x /\ x <= 100 * g
           /\ UnavailableInForce.Type = "Int" => u = UnavailableInForce.IntVal
           /\ SurgeInForce.Type = "Int" => g = SurgeInForce.IntVal

\* a DeploymentConfig of three replicas with 50% / 50%: 1.5 pods, resolved
\* to 1 unavailable and 2 surge
C9_Witness ==
    /\ Called("DeploymentConfig")
    /\ obj.Spec.Replicas = 3
    /\ obj.Spec.Strategy.Type = "Rolling"
    /\ obj.Spec.Strategy.RollingParams =
           <<[MaxUnavailable |-> <<FromString(Pct50)>>, MaxSurge |-> <<FromString(Pct50)>>]>>
    /\ ret.locals.resolved
    /\ ret.locals.maxUnavailable = 1
    /\ ret.locals.maxSurge = 2

RecreateDeployment ==
    /\ Called("Deployment")
    /\ obj.Spec.Replicas # <<>>
    /\ obj.Spec.Replicas[1] > 0
    /\ obj.Spec.Strategy.Type = "Recreate"

UnknownStrategy ==
    \/ /\ obj.Kind = "Deployment"
       /\ obj.Spec.Replicas # <<>>
       /\ obj.Spec.Replicas[1] > 0
       /\ obj.Spec.Strategy.Type \notin {"Recreate", "RollingUpdate", ""}
    \/ /\ obj.Kind = "DeploymentConfig"
       /\ obj.Spec.Replicas > 0
       /\ obj.Spec.Strategy.Type \notin {"Recreate", "Rolling", ""}

C11_UnknownStrategyIsError ==
    (cpc = "done" /\ UnknownStrategy) =>
        /\ ret.status = "err"
        /\ ret.usage = <<>>

\* a DeploymentConfig of ten replicas with the strategy Custom and valid
\* rolling parameters is refused
C11_Witness ==
    /\ Called("DeploymentConfig")
    /\ obj.Spec.Replicas = 10
    /\ obj.Spec.Strategy.Type = "Custom"
    /\ obj.Spec.Strategy.RollingParams =
           <<[MaxUnavailable |-> <<FromInt32(1)>>, MaxSurge |-> <<FromInt32(1)>>]>>
    /\ ret.status = "err"
    /\ ret.err = "deploymentConfig strategy is unknown"
    /\ ret.usage = <<>>

\* the replicas of the StatefulSet in obj: spec.replicas, 1 when absent
StsReplicas == IF obj.Spec.Replicas = <<>> THEN 1 ELSE obj.Spec.Replicas[1]

\* the sums of a pod template over its containers and its init containers,
\* and the larger of the two
ContainersSum(t, f) == SumDeclared(t.Containers, f, Len(t.Containers))

InitContainersSum(t, f) == SumDeclared(t.InitContainers, f, Len(t.InitContainers))

MaxSum(t, f) ==
    IF ContainersSum(t, f) >= InitContainersSum(t, f) THEN ContainersSum(t, f)
    ELSE InitContainersSum(t, f)

\* C12: a StatefulSet of n replicas (spec.replicas, 1 when absent) with the
\* resolved maxUnavailable u has NormalResources = Containers x n,
\* RolloutResources = Containers x (n - u) + MaxResources x u, and
\* Replicas = MaxReplicas = n under every strategy.
C12_StatefulSetFormula ==
    (Called("StatefulSet") /\ ret.status = "ok") =>
        LET t == obj.Spec.Template
            n == StsReplicas
            u == ret.locals.maxUnavailable
        IN /\ ret.usage[1].Details.Replicas = n
           /\ ret.usage[1].Details.MaxReplicas = n
           /\ \A f \in Fields :
                /\ ret.usage[1].NormalResources[f] = ContainersSum(t, f) * n
                /\ ret.usage[1].RolloutResources[f] =
                       ContainersSum(t, f) * (n - u) + MaxSum(t, f) * u

\* three replicas, two of them replaced at once, the init container larger
\* than the container: 250m + 2 x 1000m
C12_Witness ==
    /\ Called("StatefulSet")
    /\ obj.Spec.Replicas = <<3>>
    /\ obj.Spec.Template = TmplBigInit
    /\ obj.Spec.UpdateStrategy =
           [Type |-> "RollingUpdate",
            RollingUpdate |-> <<[MaxUnavailable |-> <<FromInt32(2)>>]>>]
    /\ ret.status = "ok"
    /\ ret.usage[1].NormalResources.CPUMin = 750
    /\ ret.usage[1].RolloutResources.CPUMin = 2250
    /\ ret.usage[1].Details.MaxReplicas = 3

\* C13: a StatefulSet with the strategy OnDelete has maxUnavailable =
\* replicas, so RolloutResources = MaxResources x replicas; without init
\* containers that is NormalResources, and three replicas of a pod
\* requesting 250m give RolloutResources.CPUMin = 750m.
C13_OnDeleteAllUnavailable ==
    (Called("StatefulSet") /\ obj.Spec.UpdateStrategy.Type = "OnDelete") =>
        LET t == obj.Spec.Template
            n == StsReplicas
        IN /\ ret.status = "ok"
           /\ ret.locals.maxUnavailable = n
           /\ \A f \in Fields : ret.usage[1].RolloutResources[f] = MaxSum(t, f) * n
           /\ t.InitContainers = <<>> =>
                 ret.usage[1].RolloutResources = ret.usage[1].NormalResources
           /\ (n = 3 /\ t = TmplPlain) => ret.usage[1].RolloutResources.CPUMin = 750

\* the three replicas of 250m each, deleted at once
C13_Witness ==
    /\ Called("StatefulSet")
    /\ obj.Spec.UpdateStrategy.Type = "OnDelete"
    /\ obj.Spec.Replicas = <<3>>
    /\ obj.Spec.Template = TmplPlain
    /\ ret.status = "ok"
    /\ ret.usage[1].RolloutResources.CPUMin = 750
    /\ ret.usage[1].NormalResources.CPUMin = 750

\* the maxUnavailable in force for the StatefulSet in obj: the default 1
\* when the type is empty or there are no rolling-update parameters
StsUnavailableInForce ==
    IF obj.Spec.UpdateStrategy.Type = "" \/ obj.Spec.UpdateStrategy.RollingUpdate = <<>>
    THEN FromInt32(1)
    ELSE obj.Spec.UpdateStrategy.RollingUpdate[1].MaxUnavailable[1]

\* C14: a StatefulSet with the strategy RollingUpdate or no type has
\* maxUnavailable 1 when it gives no rolling-update parameters, the ceiling
\* of p x replicas / 100 for a percentage p, the literal for a literal, and
\* reports the strategy RollingUpdate also when the type was empty.
C14_StatefulSetRolling ==
    (/\ Called("StatefulSet")
     /\ obj.Spec.UpdateStrategy.Type \in {"RollingUpdate", ""}
     /\ ret.status = "ok") =>
        LET n == StsReplicas
            u == ret.locals.maxUnavailable
            v == StsUnavailableInForce
        IN /\ obj.Spec.UpdateStrategy.RollingUpdate = <<>> => u = 1
           /\ IsPercent(v) =>
                LET x == PercentOf(v.StrVal) * n
                IN 100 * (u - 1) < x /\ x <= 100 * u
           /\ v.Type = "Int" => u = v.IntVal
           /\ ret.usage[1].Details.Strategy = "RollingUpdate"

\* three replicas with maxUnavailable 50%: 1.5 pods, resolved to 2
C14_Witness ==
    /\ Called("StatefulSet")
    /\ obj.Spec.Replicas = <<3>>
    /\ obj.Spec.UpdateStrategy =
           [Type |-> "RollingUpdate",
            RollingUpdate |-> <<[MaxUnavailable |-> <<FromString(Pct50)>>]>>]
    /\ ret.status = "ok"
    /\ ret.locals.maxUnavailable = 2
    /\ ret.usage[1].Details.Strategy = "RollingUpdate"

\* C15: a StatefulSet whose update-strategy type is neither OnDelete nor
\* RollingUpdate (unknown or empty) is computed as the RollingUpdate
\* default: no error, maxUnavailable = 1.
C15_UnknownTypeIsRollingDefault ==
    (/\ Called("StatefulSet")
     /\ obj.Spec.UpdateStrategy.Type \notin {"OnDelete", "RollingUpdate"}) =>
        LET t == obj.Spec.Template
            n == StsReplicas
        IN /\ ret.status = "ok"
           /\ ret.locals.maxUnavailable = 1
           /\ \A f \in Fields :
                ret.usage[1].RolloutResources[f] =
                    ContainersSum(t, f) * (n - 1) + MaxSum(t, f)

\* a rolling strategy whose parameter block is there but leaves out
\* maxUnavailable or maxSurge, the values it does give being usable
OmitsParameter ==
    \/ /\ obj.Kind \in {"Deployment", "DeploymentConfig"}
       /\ (obj.Kind = "Deployment" => obj.Spec.Replicas # <<>>)
       /\ ReplicasOf > 0
       /\ obj.Spec.Strategy.Type \in {"RollingUpdate", "Rolling", ""}
       /\ ParamsOf # <<>>
       /\ (ParamsOf[1].MaxUnavailable = <<>> \/ ParamsOf[1].MaxSurge = <<>>)
       /\ \A v \in {ParamsOf[1].MaxUnavailable, ParamsOf[1].MaxSurge} :
             v = <<>> \/ v[1].Type = "Int" \/ IsPercent(v[1])
    \/ /\ obj.Kind = "StatefulSet"
       /\ StsReplicas > 0
       /\ obj.Spec.UpdateStrategy.Type \in {"RollingUpdate", ""}
       /\ obj.Spec.UpdateStrategy.RollingUpdate # <<>>
       /\ obj.Spec.UpdateStrategy.RollingUpdate[1].MaxUnavailable = <<>>

\* C16: for a Deployment, DeploymentConfig or StatefulSet with replicas > 0
\* and a rolling strategy whose parameter block omits maxUnavailable or
\* maxSurge, the calculator returns a ResourceUsage (no error, no crash),
\* the omitted maxUnavailable being the default: 25% rounded down, or 1 for
\* a StatefulSet.
C16_OmittedParameterDefaults ==
    (cpc = "done" /\ OmitsParameter) =>
        /\ ret.status = "ok"
        /\ ret.usage # <<>>
        /\ (obj.Kind = "StatefulSet") => ret.locals.maxUnavailable = 1
        /\ (obj.Kind # "StatefulSet" /\ ParamsOf[1].MaxUnavailable = <<>>) =>
              LET x == 25 * ReplicasOf
                  u == ret.locals.maxUnavailable
              IN 100 * u <= x /\ x < 100 * (u + 1)

\* C17: a DaemonSet has, for every pod template, NormalResources =
\* Containers and RolloutResources = MaxResources, multiplied by no replica
\* count, Replicas = MaxReplicas = 1, no strategy, and never an error.
C17_DaemonSetSinglePod ==
    Called("DaemonSet") =>
        LET t == obj.Spec.Template
        IN /\ ret.status = "ok"
           /\ ret.usage[1].Details.Replicas = 1
           /\ ret.usage[1].Details.MaxReplicas = 1
           /\ ret.usage[1].Details.Strategy = ""
           /\ \A f \in Fields :
                /\ ret.usage[1].NormalResources[f] = ContainersSum(t, f)
                /\ ret.usage[1].RolloutResources[f] = MaxSum(t, f)

\* a DaemonSet of two containers and a larger init container
C17_Witness ==
    /\ Called("DaemonSet")
    /\ obj.Spec.Template = [Containers |-> <<Main, Small>>, InitContainers |-> <<Big>>]
    /\ ret.status = "ok"
    /\ ret.usage[1].NormalResources.CPUMin = 350
    /\ ret.usage[1].RolloutResources.CPUMin = 1000
    /\ ret.usage[1].Details.MaxReplicas = 1

\* the pod template of the Job, CronJob or Pod in obj
SinglePodTemplate ==
    CASE obj.Kind = "Job" -> obj.Spec.Template
      [] obj.Kind = "CronJob" -> obj.Spec.JobTemplate.Spec.Template
      [] obj.Kind = "Pod" -> obj.Spec

\* the normal and the rollout resources a usage reports; the usage of pod
\* holds one set of four quantities, which is both
NormalOf(u) ==
    IF "NormalResources" \in DOMAIN u THEN u.NormalResources
    ELSE [CPUMin |-> u.CpuMin, CPUMax |-> u.CpuMax,
          MemoryMin |-> u.MemoryMin, MemoryMax |-> u.MemoryMax]

RolloutOf(u) ==
    IF "RolloutResources" \in DOMAIN u THEN u.RolloutResources
    ELSE [CPUMin |-> u.CpuMin, CPUMax |-> u.CpuMax,
          MemoryMin |-> u.MemoryMin, MemoryMax |-> u.MemoryMax]

\* C18: a Job, CronJob or Pod has, for every pod template, NormalResources =
\* the sum over the containers and RolloutResources = the larger, per field,
\* of the containers' sum and the init containers' sum, with Replicas =
\* MaxReplicas = 0 and no strategy.
C18_SinglePodKinds ==
    (cpc = "done" /\ obj.Kind \in {"Job", "CronJob", "Pod"}) =>
        LET t == SinglePodTemplate
        IN /\ ret.status = "ok"
           /\ ret.usage[1].Details.Replicas = 0
           /\ ret.usage[1].Details.MaxReplicas = 0
           /\ ret.usage[1].Details.Strategy = ""
           /\ \A f \in Fields :
                /\ NormalOf(ret.usage[1])[f] = ContainersSum(t, f)
                /\ RolloutOf(ret.usage[1])[f] = MaxSum(t, f)

RollingInFull ==
    \/ /\ obj.Kind \in {"Deployment", "DeploymentConfig"}
       /\ (obj.Kind = "Deployment" => obj.Spec.Replicas # <<>>)
       /\ ReplicasOf > 0
       /\ obj.Spec.Strategy.Type \in {"RollingUpdate", "Rolling"}
       /\ ParamsOf # <<>>
       /\ ParamsOf[1].MaxUnavailable # <<>>
       /\ ParamsOf[1].MaxSurge # <<>>
    \/ /\ obj.Kind = "StatefulSet"
       /\ obj.Spec.UpdateStrategy.Type = "RollingUpdate"
       /\ obj.Spec.UpdateStrategy.RollingUpdate # <<>>
       /\ obj.Spec.UpdateStrategy.RollingUpdate[1].MaxUnavailable # <<>>

\* C20: for a Deployment, DeploymentConfig or StatefulSet, a scaled
\* maxUnavailable or maxSurge, or a difference maxSurge - maxUnavailable,
\* outside the signed 32-bit range is an error: no ResourceUsage is returned.
C20_OverflowIsError ==
    (cpc = "done" /\ RollingInFull) =>
        LET sts == obj.Kind = "StatefulSet"
            n == IF sts THEN StsReplicas ELSE ReplicasOf
            mu == GetScaledValueFromIntOrPercent(
                      IF sts THEN StsUnavailableInForce ELSE UnavailableInForce, n, sts)
            ms == IF sts THEN [err |-> FALSE, value |-> WideOf(0)]
                  ELSE GetScaledValueFromIntOrPercent(SurgeInForce, n, TRUE)
        IN (/\ ~mu.err
            /\ ~ms.err
            /\ \/ ~InInt32(mu.value)
               \/ ~InInt32(ms.value)
               \/ ~InInt32(WideSub(ms.value, mu.value))) =>
               /\ ret.status = "err"
               /\ ret.usage = <<>>

----------------------------------------------------------------------------
\* the Resources values a usage holds, whatever the shape of the usage
ResourcesIn(u) ==
    CASE "NormalResources" \in DOMAIN u -> {u.NormalResources, u.RolloutResources}
      [] "Resources" \in DOMAIN u -> {u.Resources}
      [] "CPUMin" \in DOMAIN u ->
            {[CPUMin |-> u.CPUMin, CPUMax |-> u.CPUMax,
              MemoryMin |-> u.MemoryMin, MemoryMax |-> u.MemoryMax]}
      [] OTHER ->
            {[CPUMin |-> u.CpuMin, CPUMax |-> u.CpuMax,
              MemoryMin |-> u.MemoryMin, MemoryMax |-> u.MemoryMax]}

\* a usage that is there and complete: its quantities and its details
FullyComputed(usage) ==
    /\ usage # <<>>
    /\ \A r \in ResourcesIn(usage[1]) : \A f \in Fields : r[f] \in Int
    /\ usage[1].Details.Kind = obj.Kind
    /\ usage[1].Details.Replicas \in Int
    /\ usage[1].Details.MaxReplicas \in Int

\* the object in obj as a document, decoded or not
AsDocument(decode) == [Decode |-> decode, Object |-> obj]

\* C23: whatever a per-kind calculator or ResourceQuotaFromYaml returns for
\* a document is exactly one of a usage and an error: an error comes with
\* no usage, and no error comes with a usage that is fully computed.
C23_UsageXorError ==
    (cpc = "done") =>
        /\ (ret.status # "panic") =>
              /\ (ret.err # "") => ret.usage = <<>>
              /\ (ret.err = "") => FullyComputed(ret.usage)
        /\ \A decode \in {"ok", "notRegistered", "malformed"} :
              LET q == ResourceQuotaFromYaml(AsDocument(decode))
              IN (q.status # "panic") =>
                    /\ (q.err # NoError) => q.usage = <<>>
                    /\ (q.err = NoError) => FullyComputed(q.usage)

\* a Deployment of an unknown strategy: an error and no usage, from the
\* calculator and from ResourceQuotaFromYaml
C23_Witness ==
    /\ Called("Deployment")
    /\ UnknownStrategy
    /\ ret.err # ""
    /\ ret.usage = <<>>
    /\ ResourceQuotaFromYaml(AsDocument("ok")).err.type = "CalculationError"
    /\ ResourceQuotaFromYaml(AsDocument("ok")).usage = <<>>

----------------------------------------------------------------------------
\* C25: the workloads of the model have non-negative container resources,
\* replicas >= 0 and maxSurge / maxUnavailable that are non-negative
\* literals or percentages, maxUnavailable larger than replicas + maxSurge
\* among them; every Resources value of a usage a calculator returns for
\* one has all four fields >= 0.
C25_NonNegative ==
    (cpc = "done" /\ ret.status = "ok") =>
        \A r \in ResourcesIn(ret.usage[1]) : \A f \in Fields : r[f] >= 0

----------------------------------------------------------------------------

\* a usage with the normal and the rollout resources, of a workload whose
\* maxUnavailable, if it has one, lies between 0 and replicas
TwoFieldUsage ==
    /\ cpc = "done"
    /\ ret.status = "ok"
    /\ obj.Kind \in {"StatefulSet", "DaemonSet", "Job", "CronJob"}
    /\ (obj.Kind = "StatefulSet") =>
          /\ ret.locals.maxUnavailable >= 0
          /\ ret.locals.maxUnavailable <= ret.usage[1].Details.Replicas

\* the usage in ret, listed between those of two other workloads
ListedUsages ==
    <<statefulSet(StsOnDelete.Object).usage[1], ret.usage[1],
      job(JobBigInit.Object).usage[1]>>

LessOrEqual(a, b) == \A f \in Fields : a[f] <= b[f]

----------------------------------------------------------------------------

(* Properties of the arithmetic of Resources, checked under SpecArith *)

Applied(op) == cpc = "done" /\ obj.op = op

----------------------------------------------------------------------------

\* the milli-units of one byte
MilliPerByte == 1000

\* C26: Mul(y) rounds each product to the minor unit of the quantity, a
\* milli-unit of CPU and a whole byte of memory, a half rounded away from
\* zero: 3 minor units multiplied by 0.5 give 2.
C26_MulRoundsHalfAwayFromZero ==
    Applied("Mul") =>
        /\ \A f \in {"CPUMin", "CPUMax"} :
              ret[f] = Round(obj.r[f] * obj.y.num, obj.y.den)
        /\ \A f \in {"MemoryMin", "MemoryMax"} :
              ret[f] = MilliPerByte *
                         Round(obj.r[f] * obj.y.num, obj.y.den * MilliPerByte)

----------------------------------------------------------------------------

----------------------------------------------------------------------------

(* Properties of the total the command prints, checked under Spec *)

\* field f of which ("NormalResources" or "RolloutResources"), added over the
\* first k entries of the list
RECURSIVE SumOver(_, _, _, _)
SumOver(usages, which, f, k) ==
    IF k = 0 THEN 0 ELSE SumOver(usages, which, f, k - 1) + usages[k][which][f]

DeltaOf(u, f) == u.RolloutResources[f] - u.NormalResources[f]

\* the deltas of field f of the entries whose index is in S, added up
RECURSIVE SumDeltasIn(_, _, _, _)
SumDeltasIn(usages, S, f, k) ==
    IF k = 0 THEN 0
    ELSE SumDeltasIn(usages, S, f, k - 1) + (IF k \in S THEN DeltaOf(usages[k], f) ELSE 0)

Printed == pc = "printed"

\* C1: with any maxRollout < 0 every field of the total is the sum of that
\* field of RolloutResources over all entries of the list, the empty list
\* included.
C1_UnlimitedIsRolloutSum ==
    (Printed /\ maxRollouts < 0) =>
        \A f \in Fields :
            printed[1][f] = SumOver(summary, "RolloutResources", f, Len(summary))

\* a total printed for --max-rollouts=-2 over two workloads that need more
\* during a rollout than in steady state
C1_Witness ==
    /\ Printed
    /\ maxRollouts = -2
    /\ Len(summary) = 2
    /\ \A k \in 1..2 : DeltaOf(summary[k], "CPUMin") > 0
    /\ printed[1].CPUMin = summary[1].RolloutResources.CPUMin
                           + summary[2].RolloutResources.CPUMin

\* C2: with 0 <= maxRollout = N <= len(usages) every field of the total is
\* the sum of that field of NormalResources over all entries plus the N
\* largest deltas RolloutResources - NormalResources of that field; the other
\* len(usages) - N deltas add nothing.
C2_LimitedAddsLargestDeltas ==
    (Printed /\ maxRollouts >= 0 /\ maxRollouts <= Len(summary)) =>
        \A f \in Fields :
            \E S \in SUBSET (1..Len(summary)) :
                /\ Cardinality(S) = maxRollouts
                /\ \A i \in S : \A j \in (1..Len(summary)) \ S :
                      DeltaOf(summary[i], f) >= DeltaOf(summary[j], f)
                /\ printed[1][f] =
                      SumOver(summary, "NormalResources", f, Len(summary))
                      + SumDeltasIn(summary, S, f, Len(summary))

\* three workloads with three different positive CPUMin deltas, two rollouts
\* at once: the smallest delta is left out
C2_Witness ==
    /\ Printed
    /\ maxRollouts = 2
    /\ Len(summary) = 3
    /\ DeltaOf(summary[1], "CPUMin") > DeltaOf(summary[2], "CPUMin")
    /\ DeltaOf(summary[2], "CPUMin") > DeltaOf(summary[3], "CPUMin")
    /\ DeltaOf(summary[3], "CPUMin") > 0
    /\ printed[1].CPUMin =
          SumOver(summary, "NormalResources", "CPUMin", 3)
          + DeltaOf(summary[1], "CPUMin") + DeltaOf(summary[2], "CPUMin")

\* C3: with maxRollout = 0 every field of the total is the sum of that field
\* of NormalResources over the list; no delta is added.
C3_ZeroIsNormalSum ==
    (Printed /\ maxRollouts = 0) =>
        \A f \in Fields :
            printed[1][f] = SumOver(summary, "NormalResources", f, Len(summary))

\* a total printed for --max-rollouts=0 over workloads with positive deltas
\* in every field
C3_Witness ==
    /\ Printed
    /\ maxRollouts = 0
    /\ Len(summary) >= 2
    /\ \A k \in 1..Len(summary) : \A f \in Fields : DeltaOf(summary[k], f) > 0
    /\ printed[1].MemoryMax < SumOver(summary, "RolloutResources", "MemoryMax", Len(summary))

\* workloads a and b of a list of two: b has the larger CPUMin delta, a the
\* larger MemoryMin delta
CrossedDeltas(a, b) ==
    /\ Len(summary) = 2
    /\ {a, b} = {1, 2}
    /\ DeltaOf(summary[b], "CPUMin") > DeltaOf(summary[a], "CPUMin")
    /\ DeltaOf(summary[a], "MemoryMin") > DeltaOf(summary[b], "MemoryMin")

\* C4: the N largest deltas are chosen for each field on its own: with
\* maxRollout = 1 and two workloads A and B, B with the larger CPUMin delta
\* and A with the larger MemoryMin delta, the CPUMin total adds B's delta
\* only and the MemoryMin total adds A's delta only.
C4_SelectionPerField ==
    \A a \in {1, 2} : \A b \in {1, 2} :
        (Printed /\ maxRollouts = 1 /\ CrossedDeltas(a, b)) =>
            /\ printed[1].CPUMin =
                  summary[a].NormalResources.CPUMin + summary[b].NormalResources.CPUMin
                  + DeltaOf(summary[b], "CPUMin")
            /\ printed[1].MemoryMin =
                  summary[a].NormalResources.MemoryMin + summary[b].NormalResources.MemoryMin
                  + DeltaOf(summary[a], "MemoryMin")

\* the rolling stateful set (CPUMin delta 750, MemoryMin delta 1) after the
\* OnDelete one (CPUMin delta 450, MemoryMin delta 6), one rollout at once
C4_Witness ==
    /\ Printed
    /\ maxRollouts = 1
    /\ CrossedDeltas(1, 2)
    /\ DeltaOf(summary[1], "CPUMin") > 0
    /\ DeltaOf(summary[2], "MemoryMin") > 0
    /\ printed[1].CPUMin = 300 + 500 + 750
    /\ printed[1].MemoryMin = 0 + 4 + 6

----------------------------------------------------------------------------
SupportedKinds ==
    {"DeploymentConfig", "Deployment", "StatefulSet", "DaemonSet", "Job",
     "CronJob", "Pod"}

\* a document of a kind the scheme does not know or the switch has no case for
UnsupportedKind(d) ==
    \/ d.Decode = "notRegistered"
    \/ d.Decode = "ok" /\ d.Object.Kind \notin SupportedKinds

\* a document of a supported kind its calculator accepts
ValidSupported(d) ==
    /\ d.Decode = "ok"
    /\ d.Object.Kind \in SupportedKinds
    /\ ResourceQuotaFromYaml(d).status = "ok"

\* every document read so far is a valid supported workload or of an
\* unsupported kind
AllAdmissible ==
    \A i \in 1..Len(consumed) :
        ValidSupported(consumed[i]) \/ UnsupportedKind(consumed[i])

\* one usage per valid supported document, in input order
UsagesOf(docs) ==
    LET keep == SelectSeq(docs, ValidSupported)
    IN [i \in 1..Len(keep) |-> ResourceQuotaFromYaml(keep[i]).usage[1]]

\* C21: when every document of the input is a valid supported workload or of
\* an unsupported kind, no document stops the loop and the list of usages
\* holds exactly one usage per supported document, in input order, whatever
\* unsupported documents lie between them; and the loop ends: the list is
\* handed to reporting at end of input (or Read itself fails).
C21_LoopCollectsSupported ==
    /\ [](AllAdmissible =>
            /\ pc \in {"loop", "printed", "readFailed"}
            /\ summary = UsagesOf(consumed))
    /\ ([]AllAdmissible) => <>(pc \in {"printed", "readFailed"})

\* a stateful set, a ConfigMap, a job: two usages reported, in that order
C21_Witness ==
    /\ Printed
    /\ AllAdmissible
    /\ consumed = <<StsRolling, ConfigMapDoc, JobBigInit>>
    /\ Len(summary) = 2
    /\ summary[1] = ResourceQuotaFromYaml(StsRolling).usage[1]
    /\ summary[2] = ResourceQuotaFromYaml(JobBigInit).usage[1]

\* the document the loop has just handed to ResourceQuotaFromYaml
Handled == consumed # <<>> /\ obj = consumed[Len(consumed)]

\* what the calculator of a supported kind makes of the object
CalculatorOf(o) ==
    CASE o.Kind = "DeploymentConfig" -> deploymentConfig(o)
      [] o.Kind = "Deployment" -> deployment(o)
      [] o.Kind = "StatefulSet" -> statefulSet(o)
      [] o.Kind = "DaemonSet" -> daemonSet(o)
      [] o.Kind = "Job" -> job(o)
      [] o.Kind = "CronJob" -> cronjob(o)
      [] o.Kind = "Pod" -> pod(o)

\* C22: an error ResourceQuotaFromYaml returns for a document it could
\* decode (a calculator's failure or an unsupported kind) is a
\* CalculationError with the document's Version and Kind; it unwraps to the
\* calculator's error, or to ErrResourceNotSupported, and it matches
\* ErrResourceNotSupported exactly when the kind is unsupported.
C22_PerWorkloadErrorAttributed ==
    (Handled /\ ret.status = "err" /\ obj.Decode # "malformed") =>
        /\ ret.err.type = "CalculationError"
        /\ ret.err.Version = obj.Object.APIVersion
        /\ ret.err.Kind = obj.Object.Kind
        /\ UnsupportedKind(obj) => Unwrap(ret.err) = ErrResourceNotSupported
        /\ ~UnsupportedKind(obj) =>
              /\ CalculatorOf(obj.Object).status = "err"
              /\ Unwrap(ret.err) = CalculatorOf(obj.Object).err
        /\ ErrorsIs(ret.err, ErrResourceNotSupported) <=> UnsupportedKind(obj)

\* a stateful set whose maxUnavailable leaves int32, after a ConfigMap
C22_Witness ==
    /\ Handled
    /\ consumed = <<ConfigMapDoc, OverflowDoc>>
    /\ pc = "failed"
    /\ ret.status = "err"
    /\ ret.err.Kind = "StatefulSet"
    /\ ret.err.Version = "apps/v1"
    /\ Unwrap(ret.err) = statefulSet(OverflowDoc.Object).err
    /\ ~ErrorsIs(ret.err, ErrResourceNotSupported)

\* an error of ResourceQuotaFromYaml other than the unsupported kind: the
\* document cannot be decoded, or its calculator fails
HardFailure(d) ==
    LET r == ResourceQuotaFromYaml(d)
    IN r.status = "err" /\ ~ErrorsIs(r.err, ErrResourceNotSupported)

\* C30: when ResourceQuotaFromYaml returns an error other than the
\* unsupported kind for a document, run returns that error at once: no
\* later document is read and no table or total is printed, whatever
\* earlier documents were computed.
C30_HardErrorAborts ==
    /\ [](pc = "failed" =>
            /\ Handled
            /\ HardFailure(obj)
            /\ ret.err = ResourceQuotaFromYaml(obj).err
            /\ printed = <<>>)
    /\ [][/\ (pc = "loop" /\ consumed' # consumed
              /\ HardFailure(consumed'[Len(consumed')])) =>
                 /\ pc' = "failed"
                 /\ summary' = summary
                 /\ printed' = <<>>
          /\ pc # "failed"]_vars

\* a stateful set and a job computed, then a stateful set whose
\* maxUnavailable leaves int32
C30_Witness ==
    /\ pc = "failed"
    /\ consumed = <<StsRolling, JobBigInit, OverflowDoc>>
    /\ Len(summary) = 2
    /\ ret.err.Kind = "StatefulSet"
    /\ printed = <<>>

====
